---- MODULE Spec2Model ----
(***************************************************************************)
(* Maze solving and request handling of the BDH Brain Explorer backend.    *)
(*                                                                         *)
(*   backend/api/app.py                      pathfind, pathfind_with_model,*)
(*                                           infer, measure_sparsity, ...  *)
(*   backend/training/pathfinding_dataset.py PathfindingDataset._bfs_path  *)
(*   backend/models/pathfinding_inference.py BDHPathfindingSolver          *)
(*   backend/models/pathfinding_inference_directions.py                    *)
(*                                           BDHPathfindingSolverDirections*)
(*   backend/models/bdh_instrumented.py      BDHInstrumented               *)
(*                                                                         *)
(* Spec     one call on one board: locate start/end, breadth-first search, *)
(*          and (for a direct solver call) a greedy solve.                 *)
(* SpecApi  a sequence of API requests served by the one cached model.     *)
(*                                                                         *)
(* Cells are <<row, col>>, a board is the tuple of its n rows, each the     *)
(* tuple of n codes 0 (open), 1 (wall), 2 (start), 3 (end).                *)
(***************************************************************************)
EXTENDS Integers, Sequences, FiniteSets, TLC

\* ------------------------------------------------------------------ bounds
\* Generated boards have at most MaxWalls walls inside their 3 x 3 window
\* (sparse boards), or at most MaxOpen cells of it that are no walls (dense
\* boards).
MaxWalls == 1
MaxOpen == 2
\* solve() is called with max_steps in 0..MaxSteps.
MaxSteps == 3
\* Model scores (logits) are drawn from {0, 1, ScoreMax}.
ScoreMax == 25
\* SpecApi serves at most MaxRequests requests.
MaxRequests == 8
\* Connectivity matrices have at most MaxNonZero non-zero entries (sparse) or
\* at most MaxZero zero entries (dense).
MaxNonZero == 2
MaxZero == 1
\* Activations are drawn from 0..MaxActivation.
MaxActivation == 1
\* extract_attention_flow is called with top_k in 0..MaxTopK.
MaxTopK == 5

\* ------------------------------------------------------- program constants
\* self.board_size of both greedy solvers.
board_size == 10
\* Layers of the cached model (BDHParameters L): frames captured per forward.
NumLayers == 12

None == <<>>

\* The window the walls, start and end of a generated board lie in.
WindowRows == 0..2
Window == WindowRows \X WindowRows
WindowSide == Cardinality(WindowRows)

Grid(n) == (0..(n - 1)) \X (0..(n - 1))

\* ------------------------------------------------------------------ boards
\* A board of side n whose window, shifted by off, holds the pattern (walls,
\* start code at s, end code at e); every cell outside the window is a wall.
MakeBoard(n, off, walls, s, e) ==
    [r \in 1..n |-> [c \in 1..n |->
        LET w == <<r - 1 - off, c - 1 - off>> IN
        IF w \notin Window THEN 1
        ELSE IF w \in walls THEN 1
        ELSE IF w = s THEN 2
        ELSE IF w = e THEN 3
        ELSE 0]]

\* board[row][col], board[row, col]: rows and columns count from 0.
At(b, pos) == b[pos[1] + 1][pos[2] + 1]

WallSets ==
    {ws \in SUBSET Window :
        \/ Cardinality(ws) <= MaxWalls
        \/ Cardinality(Window \ ws) <= MaxOpen}

\* Side and window offset of the generated boards: a board that is the window
\* itself, and boards of the solvers' side with the window in either corner.
Placements ==
    { <<WindowSide, 0>>, <<board_size, 0>>, <<board_size, board_size - WindowSide>> }

\* The board of the API's request example and of test_pathfinding.
ExampleRows ==
    << <<0, 0, 1, 0>>,
       <<2, 0, 1, 0>>,
       <<0, 0, 0, 3>>,
       <<0, 1, 0, 0>> >>

ExampleBoard == ExampleRows

\* ------------------------------------------------------------------- state
VARIABLES
    caller,         \* "pathfind", "pathfind-model" (endpoints) or "solve"
    n,              \* side of the board (board.shape[0])
    board,          \* the board
    checkpoint_exists,  \* checkpoints/bdh_pathfinding_trained.pth is on disk
    pc,             \* position in the call
    start_pos,      \* located start, or None
    end_pos,        \* located end, or None
    queue,          \* BFS frontier: the accumulated paths, oldest first
    visited,        \* BFS visited set
    solution,       \* BFS result: a path, or <<>> (no path)
    bfs_iters,      \* BFS loop iterations run
    bfs_ran,        \* the BFS loop was entered
    inference_ran,  \* a forward pass of the cached model was run
    status,         \* HTTP status of the response, 0 while none
    model_error,    \* pathfind_with_model's model_error: None or <<message>>
    model_available,    \* pathfind_with_model's model_available
    model_solution,     \* pathfind_with_model's model_solution: None or a path
    policy,         \* "cell" or "direction": the solver class
    max_steps,      \* solve's max_steps
    step,           \* iterations of the stepping loop started
    current,        \* solve: current
    path,           \* solve: path
    gvisited,       \* solve: visited
    ret,            \* solve's outcome: "pending", "path", "None" or "IndexError"
    why,            \* how solve ended: "reached", "stuck", "budget", "raised"
    tracking_enabled,   \* BDHInstrumented.tracking_enabled of the cached model
    cache_loaded,       \* MODEL_CACHE['model'] is not None
    loads,              \* times load_model built a model
    y_len,              \* len(states['y_activations'])
    sp_len,             \* len(states['sparsity_per_layer'])
    nreq,               \* requests served
    last_req,           \* the last request served
    last_out,           \* its outcome
    fn,                 \* the StateExtractor function called, "none" before
    args,               \* its arguments
    result              \* what it returned

boardVars == <<caller, n, board, checkpoint_exists>>
bfsVars == <<start_pos, end_pos, queue, visited, solution, bfs_iters, bfs_ran>>
respVars == <<inference_ran, status, model_error, model_available, model_solution>>
solveVars == <<policy, max_steps, step, current, path, gvisited, ret, why>>
apiVars == <<tracking_enabled, cache_loaded, loads, y_len, sp_len, nreq, last_req, last_out>>
extractVars == <<fn, args, result>>
vars == <<boardVars, pc, bfsVars, respVars, solveVars, apiVars, extractVars>>

\* ------------------------------------------------- locating start and end
\* The scan of the board in row-major order: the last cell holding the code
\* wins, None when no cell holds it.
FindCode(b, nn, code) ==
    LET hits == {cell \in Grid(nn) : At(b, cell) = code} IN
    IF hits = {} THEN None
    ELSE CHOOSE cell \in hits :
            \A other \in hits : other[1] * nn + other[2] <= cell[1] * nn + cell[2]

\* ---------------------------------------------------- breadth-first search
\* BfsDirs without the move to the right.
BfsDirs_NoRight == << <<1, 0>>, <<0, -1>>, <<-1, 0>> >>

\* for dr, dc in [(0, 1), (1, 0), (0, -1), (-1, 0)]
BfsDirs == << <<0, 1>>, <<1, 0>>, <<0, -1>>, <<-1, 0>> >>

\* BfsEligible without the wall test.
BfsEligible_NoWallTest(b, nn, vis, new) ==
    /\ 0 <= new[1] /\ new[1] < nn
    /\ 0 <= new[2] /\ new[2] < nn
    /\ new \notin vis

\* The eligibility test of the expansion loop.
BfsEligible(b, nn, vis, new) ==
    /\ 0 <= new[1] /\ new[1] < nn
    /\ 0 <= new[2] /\ new[2] < nn
    /\ new \notin vis
    /\ At(b, new) # 1

\* Expand with the frontier used as a stack: queue.appendleft for queue.append.
RECURSIVE Expand_AppendLeft(_, _, _, _, _, _, _)
Expand_AppendLeft(b, nn, cell, p, i, q, vis) ==
    IF i > Len(BfsDirs) THEN [queue |-> q, visited |-> vis]
    ELSE LET new == <<cell[1] + BfsDirs[i][1], cell[2] + BfsDirs[i][2]>> IN
         IF /\ 0 <= new[1] /\ new[1] < nn /\ 0 <= new[2] /\ new[2] < nn
            /\ new \notin vis /\ At(b, new) # 1
         THEN Expand_AppendLeft(b, nn, cell, p, i + 1, <<Append(p, new)>> \o q, vis \cup {new})
         ELSE Expand_AppendLeft(b, nn, cell, p, i + 1, q, vis)

\* The expansion loop from direction i on: frontier and visited set after it.
RECURSIVE Expand(_, _, _, _, _, _, _)
Expand(b, nn, cell, p, i, q, vis) ==
    IF i > Len(BfsDirs) THEN [queue |-> q, visited |-> vis]
    ELSE LET new == <<cell[1] + BfsDirs[i][1], cell[2] + BfsDirs[i][2]>> IN
         IF BfsEligible(b, nn, vis, new)
         THEN Expand(b, nn, cell, p, i + 1, Append(q, Append(p, new)), vis \cup {new})
         ELSE Expand(b, nn, cell, p, i + 1, q, vis)

Last(p) == p[Len(p)]

\* Where a call goes once its breadth-first search is over.
AfterBfs ==
    CASE caller = "pathfind" -> "respond"
      [] caller = "pathfind-model" -> "model_try"
      [] OTHER -> "solve_entry"

\* queue = deque([(start_pos, [start_pos])]); visited = {start_pos}
BfsSeed(s) ==
    /\ queue' = << <<s>> >>
    /\ visited' = {s}
    /\ bfs_ran' = TRUE
    /\ pc' = "bfs"

\* POST /api/pathfind up to the search: load_model, the tracked forward pass,
\* the scan, and "if start_pos and end_pos".
PathfindBegin ==
    /\ pc = "start" /\ caller = "pathfind"
    /\ inference_ran' = TRUE
    /\ start_pos' = FindCode(board, n, 2)
    /\ end_pos' = FindCode(board, n, 3)
    /\ IF start_pos' # None /\ end_pos' # None
       THEN BfsSeed(start_pos')
       ELSE /\ pc' = "respond"
            /\ UNCHANGED <<queue, visited, bfs_ran>>
    /\ UNCHANGED <<boardVars, solution, bfs_iters, status, model_error, model_available, model_solution, solveVars, apiVars, extractVars>>

\* POST /api/pathfind-model up to the search: the scan, then the validation
\* raise HTTPException(status_code=400, ...), which the handler's own
\* "except Exception" catches and re-raises as HTTPException(status_code=500).
PathfindModelBegin ==
    /\ pc = "start" /\ caller = "pathfind-model"
    /\ start_pos' = FindCode(board, n, 2)
    /\ end_pos' = FindCode(board, n, 3)
    /\ IF start_pos' = None \/ end_pos' = None
       THEN /\ status' = 500
            /\ pc' = "done"
            /\ UNCHANGED <<queue, visited, bfs_ran>>
       ELSE /\ BfsSeed(start_pos')
            /\ UNCHANGED status
    /\ UNCHANGED <<boardVars, solution, bfs_iters, inference_ran, model_error, model_available, model_solution, solveVars, apiVars, extractVars>>

\* _bfs_path(board, start, end) called directly, start and end given.
BfsPathBegin ==
    /\ pc = "start" /\ caller = "solve"
    /\ start_pos' = FindCode(board, n, 2)
    /\ end_pos' = FindCode(board, n, 3)
    /\ BfsSeed(start_pos')
    /\ UNCHANGED <<boardVars, solution, bfs_iters, respVars, solveVars, apiVars, extractVars>>

\* One iteration of "while queue": popleft, the end test, the expansion.
BfsStep ==
    /\ pc = "bfs" /\ queue # << >>
    /\ bfs_iters' = bfs_iters + 1
    /\ LET p == Head(queue)
           cell == Last(p)
       IN IF cell = end_pos
          THEN /\ solution' = p
               /\ queue' = Tail(queue)
               /\ pc' = AfterBfs
               /\ UNCHANGED visited
          ELSE LET e == Expand(board, n, cell, p, 1, Tail(queue), visited) IN
               /\ queue' = e.queue
               /\ visited' = e.visited
               /\ UNCHANGED <<solution, pc>>
    /\ UNCHANGED <<boardVars, start_pos, end_pos, bfs_ran, respVars, solveVars, apiVars, extractVars>>

\* The frontier is empty: the loop ends with solution still [] (None).
BfsExhausted ==
    /\ pc = "bfs" /\ queue = << >>
    /\ pc' = AfterBfs
    /\ UNCHANGED <<boardVars, bfsVars, respVars, solveVars, apiVars, extractVars>>

\* POST /api/pathfind: the response.
PathfindRespond ==
    /\ pc = "respond" /\ caller = "pathfind"
    /\ status' = 200
    /\ pc' = "done"
    /\ UNCHANGED <<boardVars, bfsVars, inference_ran, model_error, model_available, model_solution, solveVars, apiVars, extractVars>>

\* str(e) of the NameError that "Path(__file__)" raises in pathfind_with_model.
PathNameError == "name 'Path' is not defined"

\* POST /api/pathfind-model: the model attempt. Path is imported only inside
\* load_model, so "Path(__file__)" raises NameError before
\* checkpoint_path.exists() is evaluated, whether or not the checkpoint is on
\* disk; the inner "except Exception" turns it into model_error.
ModelTry ==
    /\ pc = "model_try"
    /\ model_solution' = None
    /\ model_available' = FALSE
    /\ model_error' = <<"Model inference failed: ", PathNameError>>
    /\ pc' = "respond"
    /\ UNCHANGED <<boardVars, bfsVars, inference_ran, status, solveVars, apiVars, extractVars>>

\* POST /api/pathfind-model: load_model, the tracked forward pass, the response.
PathfindModelRespond ==
    /\ pc = "respond" /\ caller = "pathfind-model"
    /\ inference_ran' = TRUE
    /\ status' = 200
    /\ pc' = "done"
    /\ UNCHANGED <<boardVars, bfsVars, model_error, model_available, model_solution, solveVars, apiVars, extractVars>>

\* ----------------------------------------------------------- greedy solvers
Abs(x) == IF x < 0 THEN -x ELSE x

\* The values a per-cell model score (a logit) is drawn from.
Scores == {0, 1, ScoreMax}

\* The values a per-direction model score is drawn from.
DirectionScores == {0, ScoreMax}

\* adjacent_cells of the cell-scored solver: up, down, left, right.
AdjacentCells(cur) ==
    << <<cur[1] - 1, cur[2]>>, <<cur[1] + 1, cur[2]>>,
       <<cur[1], cur[2] - 1>>, <<cur[1], cur[2] + 1>> >>

\* DIRECTIONS of the direction-scored solver, indexed 0..3.
DIRECTIONS == [d \in 0..3 |->
    CASE d = 0 -> <<-1, 0>> [] d = 1 -> <<1, 0>> [] d = 2 -> <<0, -1>> [] OTHER -> <<0, 1>>]

\* The bounds check of both _is_valid_move: against self.board_size.
InSolverBounds(pos) ==
    /\ 0 <= pos[1] /\ pos[1] < board_size
    /\ 0 <= pos[2] /\ pos[2] < board_size

\* board[row, col] raises IndexError: the position passed the bounds check
\* and lies outside the board (indices are non-negative here, so numpy does
\* not wrap them).
RaisesIndexError(nn, pos) == InSolverBounds(pos) /\ pos \notin Grid(nn)

\* _is_adjacent
IsAdjacent(cur, pos) ==
    LET row_diff == Abs(pos[1] - cur[1])
        col_diff == Abs(pos[2] - cur[2])
    IN (row_diff = 1 /\ col_diff = 0) \/ (row_diff = 0 /\ col_diff = 1)

\* IsValidMove without the wall test.
IsValidMove_NoWallTest(b, pos, vis, cur) ==
    /\ InSolverBounds(pos)
    /\ pos \notin vis
    /\ IsAdjacent(cur, pos)

\* BDHPathfindingSolver._is_valid_move, for a position whose board read does
\* not raise.
IsValidMove(b, pos, vis, cur) ==
    /\ InSolverBounds(pos)
    /\ At(b, pos) # 1
    /\ pos \notin vis
    /\ IsAdjacent(cur, pos)

\* IsValidMoveDirections without the visited test.
IsValidMoveDirections_NoVisitedTest(b, pos, vis) ==
    /\ InSolverBounds(pos)
    /\ At(b, pos) # 1

\* BDHPathfindingSolverDirections._is_valid_move, likewise.
IsValidMoveDirections(b, pos, vis) ==
    /\ InSolverBounds(pos)
    /\ At(b, pos) # 1
    /\ pos \notin vis

ManhattanDist(pos, e) == Abs(pos[1] - e[1]) + Abs(pos[2] - e[2])

\* combined_score = -manhattan_dist + 0.1 * model_score, in tenths.
CombinedScore(pos, e, model_score) == -10 * ManhattanDist(pos, e) + model_score

\* valid_moves.sort(key=lambda x: x[1], reverse=True); valid_moves[0][0]:
\* the sort is stable, so the first candidate of the highest score.
BestMove(cands, score) ==
    LET i == CHOOSE i \in 1..Len(cands) :
                /\ \A j \in 1..Len(cands) : score[j] <= score[i]
                /\ \A j \in 1..(i - 1) : score[j] < score[i]
    IN cands[i]

SortedDirections_TiesByHigherIndex(logits) ==
    LET before(a, c) == logits[a] > logits[c] \/ (logits[a] = logits[c] /\ a > c)
        rank(a) == Cardinality({c \in 0..3 : before(c, a)})
    IN [k \in 1..4 |-> CHOOSE a \in 0..3 : rank(a) = k - 1]

\* direction_scores.sort(key=lambda x: x[1], reverse=True): the direction
\* indices by descending score, equal scores in index order.
SortedDirections(logits) ==
    LET before(a, c) == logits[a] > logits[c] \/ (logits[a] = logits[c] /\ a < c)
        rank(a) == Cardinality({c \in 0..3 : before(c, a)})
    IN [k \in 1..4 |-> CHOOSE a \in 0..3 : rank(a) = k - 1]

\* The loop over direction_scores from position k on: the first candidate that
\* is valid, an IndexError if a board read raises first, None if none is valid.
RECURSIVE TryDirections(_, _, _, _, _, _)
TryDirections(b, nn, cur, vis, order, k) ==
    IF k > Len(order) THEN [kind |-> "None", cell |-> None]
    ELSE LET candidate == <<cur[1] + DIRECTIONS[order[k]][1],
                            cur[2] + DIRECTIONS[order[k]][2]>>
         IN IF RaisesIndexError(nn, candidate)
            THEN [kind |-> "IndexError", cell |-> None]
            ELSE IF IsValidMoveDirections(b, candidate, vis)
            THEN [kind |-> "move", cell |-> candidate]
            ELSE TryDirections(b, nn, cur, vis, order, k + 1)

\* solve(board, start, end, max_steps) of either solver class: its entry.
SolveBegin ==
    /\ pc = "solve_entry"
    /\ \E pol \in {"cell", "direction"}, ms \in 0..MaxSteps :
          /\ policy' = pol
          /\ max_steps' = ms
    /\ current' = start_pos
    /\ path' = <<start_pos>>
    /\ gvisited' = {start_pos}
    /\ step' = 0
    /\ pc' = "solve"
    /\ UNCHANGED <<boardVars, bfsVars, respVars, ret, why, apiVars, extractVars>>

SolveReturn(r, reason) ==
    /\ ret' = r
    /\ why' = reason
    /\ pc' = "done"
    /\ UNCHANGED <<current, path, gvisited>>

SolveMove(next_cell) ==
    /\ path' = Append(path, next_cell)
    /\ gvisited' = gvisited \cup {next_cell}
    /\ current' = next_cell
    /\ UNCHANGED <<ret, why, pc>>

\* One iteration of the stepping loop of BDHPathfindingSolver.solve.
CellStep ==
    /\ pc = "solve" /\ policy = "cell" /\ step < max_steps
    /\ step' = step + 1
    /\ IF current = end_pos
       THEN SolveReturn("path", "reached")
       ELSE LET adj == AdjacentCells(current) IN
            IF \E i \in 1..4 : RaisesIndexError(n, adj[i])
            THEN SolveReturn("IndexError", "raised")
            ELSE LET valid == SelectSeq(adj, LAMBDA pos : IsValidMove(board, pos, gvisited, current)) IN
                 IF valid = << >>
                 THEN SolveReturn("None", "stuck")
                 ELSE \E next_cell \in
                            {BestMove(valid,
                                [i \in 1..Len(valid) |->
                                    CombinedScore(valid[i], end_pos, model_score[i])]) :
                             model_score \in [1..Len(valid) -> Scores]} :
                        SolveMove(next_cell)
    /\ UNCHANGED <<boardVars, bfsVars, respVars, policy, max_steps, apiVars, extractVars>>

\* One iteration of the stepping loop of BDHPathfindingSolverDirections.solve.
DirectionStep ==
    /\ pc = "solve" /\ policy = "direction" /\ step < max_steps
    /\ step' = step + 1
    /\ IF current = end_pos
       THEN SolveReturn("path", "reached")
       ELSE \E t \in {TryDirections(board, n, current, gvisited,
                                    SortedDirections(last_logits), 1) :
                      last_logits \in [0..3 -> DirectionScores]} :
            CASE t.kind = "IndexError" -> SolveReturn("IndexError", "raised")
              [] t.kind = "None" -> SolveReturn("None", "stuck")
              [] OTHER -> SolveMove(t.cell)
    /\ UNCHANGED <<boardVars, bfsVars, respVars, policy, max_steps, apiVars, extractVars>>

\* BudgetReturn returning the path walked so far.
BudgetReturn_PartialPath(cur, e) == "path"

\* return None if current != end else path
BudgetReturn(cur, e) == IF cur # e THEN "None" ELSE "path"

\* The loop ran max_steps iterations.
SolveBudget ==
    /\ pc = "solve" /\ step = max_steps
    /\ SolveReturn(BudgetReturn(current, end_pos), "budget")
    /\ UNCHANGED <<boardVars, bfsVars, respVars, policy, max_steps, step, apiVars, extractVars>>

\* --------------------------------------------------------- one call, a board
ValidPatterns ==
    {<<ws, s, e>> \in WallSets \X Window \X Window :
        s # e /\ s \notin ws /\ e \notin ws}

\* Patterns with no start code, no end code, or neither.
InvalidPatterns ==
    {<<ws, s, e>> \in WallSets \X (Window \cup {None}) \X (Window \cup {None}) :
        /\ s = None \/ e = None
        /\ s \notin ws /\ e \notin ws}

InitBoard ==
    \/ /\ caller \in {"pathfind", "pathfind-model"}
       /\ \E pat \in ValidPatterns :
             /\ n = WindowSide
             /\ board = MakeBoard(WindowSide, 0, pat[1], pat[2], pat[3])
    \/ /\ caller = "solve"
       /\ \E pl \in Placements, pat \in ValidPatterns :
             /\ n = pl[1]
             /\ board = MakeBoard(pl[1], pl[2], pat[1], pat[2], pat[3])
    \/ /\ caller \in {"pathfind", "pathfind-model"}
       /\ \E pat \in InvalidPatterns :
             /\ n = WindowSide
             /\ board = MakeBoard(WindowSide, 0, pat[1], pat[2], pat[3])
    \/ /\ caller \in {"pathfind", "pathfind-model", "solve"}
       /\ n = 4
       /\ board = ExampleBoard

ApiIdle ==
    /\ tracking_enabled = FALSE
    /\ cache_loaded = FALSE
    /\ loads = 0
    /\ y_len = 0
    /\ sp_len = 0
    /\ nreq = 0
    /\ last_req = "none"
    /\ last_out = "none"

ExtractorIdle ==
    /\ fn = "none"
    /\ args = << >>
    /\ result = << >>

Init ==
    /\ InitBoard
    /\ checkpoint_exists \in (IF caller = "pathfind-model" THEN BOOLEAN ELSE {FALSE})
    /\ pc = "start"
    /\ start_pos = None /\ end_pos = None
    /\ queue = << >> /\ visited = {} /\ solution = << >>
    /\ bfs_iters = 0 /\ bfs_ran = FALSE
    /\ inference_ran = FALSE /\ status = 0 /\ model_error = None
    /\ model_available = FALSE /\ model_solution = None
    /\ policy = "none" /\ max_steps = 0 /\ step = 0
    /\ current = None /\ path = << >> /\ gvisited = {}
    /\ ret = "pending" /\ why = "none"
    /\ ApiIdle
    /\ ExtractorIdle

Next ==
    \/ PathfindBegin
    \/ PathfindModelBegin
    \/ BfsPathBegin
    \/ BfsStep
    \/ BfsExhausted
    \/ PathfindRespond
    \/ ModelTry
    \/ PathfindModelRespond
    \/ SolveBegin
    \/ CellStep
    \/ DirectionStep
    \/ SolveBudget

Spec == Init /\ [][Next]_vars

\* ------------------------------------------- requests on the cached model
\* The instrumented model's mutable part: tracking_enabled and the lengths of
\* states['y_activations'] and states['sparsity_per_layer'].
ModelState(te, yl, sl) == [tracking_enabled |-> te, y_len |-> yl, sp_len |-> sl]

\* BDHInstrumented.enable_tracking: the flag set, self.states reinitialised.
EnableTracking(m) == ModelState(TRUE, 0, 0)

\* BDHInstrumented.disable_tracking
DisableTracking(m) == ModelState(FALSE, m.y_len, m.sp_len)

\* BDHInstrumented._store_states: the frame lists are replaced, one sparsity
\* value per captured frame is appended to states['sparsity_per_layer'].
StoreStates(m) == ModelState(m.tracking_enabled, NumLayers, m.sp_len + NumLayers)

\* BDHInstrumented.forward(input_, capture_frames): what it returns ("logits"
\* or the 6-"tuple") and the model state it leaves.
Forward(m, capture_frames) ==
    LET capture == IF m.tracking_enabled THEN TRUE ELSE capture_frames IN
    IF capture
    THEN [returns |-> "tuple",
          model |-> IF m.tracking_enabled THEN StoreStates(m) ELSE m]
    ELSE [returns |-> "logits", model |-> m]

\* BDHInstrumented.measure_sparsity: enable_tracking, forward, disable_tracking.
MeasureSparsity(m) == DisableTracking(Forward(EnableTracking(m), TRUE).model)

TheModel == ModelState(tracking_enabled, y_len, sp_len)

LoadModel_AlwaysBuilds ==
    /\ cache_loaded' = TRUE
    /\ loads' = loads + 1

\* load_model: builds the model when the cache is empty, else returns the
\* cached one.
LoadModel ==
    /\ cache_loaded' = TRUE
    /\ loads' = IF cache_loaded THEN loads ELSE loads + 1

Served(req, out, m) ==
    /\ nreq' = nreq + 1
    /\ last_req' = req
    /\ last_out' = out
    /\ tracking_enabled' = m.tracking_enabled
    /\ y_len' = m.y_len
    /\ sp_len' = m.sp_len

SolverIdle == UNCHANGED <<boardVars, pc, bfsVars, respVars, solveVars, extractVars>>

\* POST /api/infer with track_states = true.
InferTracked ==
    /\ nreq < MaxRequests
    /\ LoadModel
    /\ LET f == Forward(EnableTracking(TheModel), TRUE) IN
       IF f.returns = "tuple"
       THEN Served("infer-tracked", "predictions", MeasureSparsity(f.model))
       ELSE Served("infer-tracked", "error500", f.model)
    /\ SolverIdle

\* POST /api/infer with track_states = false: logits.argmax(...) on what
\* model(input_tokens, capture_frames=False) returned; a tuple has no argmax,
\* the AttributeError becomes HTTP 500.
InferUntracked ==
    /\ nreq < MaxRequests
    /\ LoadModel
    /\ LET f == Forward(TheModel, FALSE) IN
       IF f.returns = "logits"
       THEN Served("infer-untracked", "predictions", f.model)
       ELSE Served("infer-untracked", "error500", f.model)
    /\ SolverIdle

\* POST /api/sparsity
SparsityRequest ==
    /\ nreq < MaxRequests
    /\ LoadModel
    /\ Served("sparsity", "ok200", MeasureSparsity(TheModel))
    /\ SolverIdle

\* POST /api/pathfind, whole: load_model, enable_tracking, the forward pass;
\* the search does not touch the model.
PathfindRequest ==
    /\ nreq < MaxRequests
    /\ LoadModel
    /\ LET f == Forward(EnableTracking(TheModel), TRUE) IN
       Served("pathfind", IF f.returns = "tuple" THEN "ok200" ELSE "error500", f.model)
    /\ SolverIdle

\* POST /api/pathfind-model, whole: a board without start or end fails before
\* the model is touched; otherwise load_model, enable_tracking, forward.
PathfindModelRequest ==
    /\ nreq < MaxRequests
    /\ \E valid_board \in BOOLEAN :
          IF valid_board
          THEN /\ LoadModel
               /\ LET f == Forward(EnableTracking(TheModel), TRUE) IN
                  Served("pathfind-model",
                         IF f.returns = "tuple" THEN "ok200" ELSE "error500", f.model)
          ELSE /\ Served("pathfind-model", "error500", TheModel)
               /\ UNCHANGED <<cache_loaded, loads>>
    /\ SolverIdle

\* GET /health, /api/config, /api/model-status: load_model and a read.
ReadOnlyRequest ==
    /\ nreq < MaxRequests
    /\ LoadModel
    /\ Served("read-only", "ok200", TheModel)
    /\ SolverIdle

InitApi ==
    /\ caller = "api" /\ n = 0 /\ board = << >> /\ checkpoint_exists = FALSE
    /\ pc = "idle"
    /\ start_pos = None /\ end_pos = None
    /\ queue = << >> /\ visited = {} /\ solution = << >>
    /\ bfs_iters = 0 /\ bfs_ran = FALSE
    /\ inference_ran = FALSE /\ status = 0 /\ model_error = None
    /\ model_available = FALSE /\ model_solution = None
    /\ policy = "none" /\ max_steps = 0 /\ step = 0
    /\ current = None /\ path = << >> /\ gvisited = {}
    /\ ret = "pending" /\ why = "none"
    /\ ApiIdle
    /\ ExtractorIdle

\* ------------------------------------- StateExtractor.extract_graph_topology
\* A matrix is the tuple of its N rows; Gx[i, j] with i, j counting from 0.
\* Weights and thresholds are integers (floats that hold them exactly).
Entry(m, i, j) == m[i + 1][j + 1]

\* An Optional[int] argument: << >> is None, <<k>> is the integer k.
IsNone(opt) == opt = << >>

\* A fraction num/den, kept exact.
Ratio(num, den) == <<num, den>>

RECURSIVE SumSeq(_)
SumSeq(s) == IF s = << >> THEN 0 ELSE Head(s) + SumSeq(Tail(s))

SeqRange(s) == {s[k] : k \in 1..Len(s)}

RemoveAt(s, k) == SubSeq(s, 1, k - 1) \o SubSeq(s, k + 1, Len(s))

\* The values of s in ascending order.
RECURSIVE SortedAscending(_)
SortedAscending(s) ==
    IF s = << >> THEN << >>
    ELSE LET k == CHOOSE k \in 1..Len(s) : \A l \in 1..Len(s) : s[k] <= s[l]
         IN <<s[k]>> \o SortedAscending(RemoveAt(s, k))

\* for i in range(N): for j in range(N): the ordered pairs, row by row.
RowMajor(N) == [k \in 1..(N * N) |-> <<(k - 1) \div N, (k - 1) % N>>]

\* The edges list: one record per ordered pair whose weight passes
\* abs(weight) > threshold, in the order of the double loop.
ThresholdedEdges_AtLeast(Gx, N, threshold) ==
    LET pairs == SelectSeq(RowMajor(N),
                     LAMBDA p : Abs(Entry(Gx, p[1], p[2])) >= threshold)
    IN [k \in 1..Len(pairs) |->
           [source |-> pairs[k][1], target |-> pairs[k][2],
            weight |-> Entry(Gx, pairs[k][1], pairs[k][2])]]

ThresholdedEdges(Gx, N, threshold) ==
    LET pairs == SelectSeq(RowMajor(N),
                     LAMBDA p : Abs(Entry(Gx, p[1], p[2])) > threshold)
    IN [k \in 1..Len(pairs) |->
           [source |-> pairs[k][1], target |-> pairs[k][2],
            weight |-> Entry(Gx, pairs[k][1], pairs[k][2])]]

\* The edge set of the DiGraph G after the add_edge calls.
GraphEdges(edges) == {<<edges[k].source, edges[k].target>> : k \in 1..Len(edges)}

\* G.in_degree(), G.out_degree(): a self-loop counts once in each.
InDegree(E, i) == Cardinality({e \in E : e[2] = i})
OutDegree(E, i) == Cardinality({e \in E : e[1] = i})
TotalDegree(E, i) == InDegree(E, i) + OutDegree(E, i)

\* degree_list: the total degrees of nodes 0..N-1 in that order.
DegreeList(E, N) == [k \in 1..N |-> TotalDegree(E, k - 1)]

\* np.percentile(a, 90), in tenths: the linear interpolation between the two
\* order statistics around the virtual index 0.9 * (len(a) - 1).
Percentile90_Lower(a) ==
    LET s == SortedAscending(a)
        lo == (9 * (Len(a) - 1)) \div 10
    IN 10 * s[lo + 1]

Percentile90(a) ==
    LET s == SortedAscending(a)
        lo == (9 * (Len(a) - 1)) \div 10
        frac == (9 * (Len(a) - 1)) % 10
    IN IF frac = 0 THEN 10 * s[lo + 1]
       ELSE 10 * s[lo + 1] + frac * (s[lo + 2] - s[lo + 1])

\* hub_threshold in tenths: the 90th percentile, 0 for an empty degree_list.
HubThreshold(degree_list) ==
    IF Len(degree_list) > 0 THEN Percentile90(degree_list) ELSE 0

\* hubs: the nodes with deg >= hub_threshold, in node order.
Hubs(degree_list) ==
    IF Len(degree_list) > 0
    THEN LET ids == [k \in 1..Len(degree_list) |-> k - 1]
             hub_threshold == HubThreshold(degree_list)
         IN SelectSeq(ids, LAMBDA i : 10 * degree_list[i + 1] >= hub_threshold)
    ELSE << >>

\* sorted(total_degrees.items(), key=degree, reverse=True): node ids by
\* descending degree, equal degrees in node order (the sort is stable).
RECURSIVE SortedByDegree(_, _)
SortedByDegree(degree_list, ids) ==
    IF ids = {} THEN << >>
    ELSE LET i == CHOOSE i \in ids : \A j \in ids :
                      \/ degree_list[i + 1] > degree_list[j + 1]
                      \/ degree_list[i + 1] = degree_list[j + 1] /\ i <= j
         IN <<i>> \o SortedByDegree(degree_list, ids \ {i})

\* The filter applies: top_k_nodes is not None and top_k_nodes < N.
TopKApplies(N, top_k_nodes) == ~IsNone(top_k_nodes) /\ top_k_nodes[1] < N

\* top_node_ids: the first top_k_nodes ids of the sorted list, as a set.
TopNodeIds_OneMore(Gx, N, threshold, top_k_nodes) ==
    LET E == GraphEdges(ThresholdedEdges(Gx, N, threshold))
        order == SortedByDegree(DegreeList(E, N), 0..(N - 1))
    IN SeqRange(SubSeq(order, 1, top_k_nodes[1] + 1))

TopNodeIds(Gx, N, threshold, top_k_nodes) ==
    LET E == GraphEdges(ThresholdedEdges(Gx, N, threshold))
        order == SortedByDegree(DegreeList(E, N), 0..(N - 1))
    IN SeqRange(SubSeq(order, 1, top_k_nodes[1]))

\* The orders a set can be iterated in.
Orders(S) ==
    {o \in [1..Cardinality(S) -> S] : \A a, b \in 1..Cardinality(S) : o[a] = o[b] => a = b}

\* The orders the nodes list can be built in: range(N), or the iteration of
\* the set top_node_ids.
NodeOrders(Gx, N, threshold, top_k_nodes) ==
    IF TopKApplies(N, top_k_nodes)
    THEN Orders(TopNodeIds(Gx, N, threshold, top_k_nodes))
    ELSE {[k \in 1..N |-> k - 1]}

\* The metrics dictionary as extract_graph_topology builds it. avg_degree is
\* an exact fraction, std_degree is given by its square (the variance),
\* hub_threshold is in tenths. Community detection is not computed here:
\* modularity and num_communities are 0 when it is skipped (G has no edge),
\* and otherwise stand for its result on the undirected projection of G.
TopologyMetricsOf(nodes, edges, E, degree_list, N) ==
    LET total == SumSeq(degree_list)
        squares == SumSeq([k \in 1..N |-> degree_list[k] * degree_list[k]])
        sorted == SortedAscending(degree_list)
        detect == Cardinality(E) > 0
    IN [num_nodes |-> Len(nodes),
        num_edges |-> Len(edges),
        avg_degree |-> IF N > 0 THEN Ratio(total, N) ELSE Ratio(0, 1),
        max_degree |-> IF N > 0 THEN sorted[N] ELSE 0,
        min_degree |-> IF N > 0 THEN sorted[1] ELSE 0,
        std_degree |-> IF N > 0 THEN Ratio(N * squares - total * total, N * N)
                       ELSE Ratio(0, 1),
        modularity |-> [detected |-> detect, on |-> IF detect THEN E ELSE {}],
        num_communities |-> [detected |-> detect, on |-> IF detect THEN E ELSE {}],
        hub_threshold |-> HubThreshold(degree_list),
        num_hubs |-> Len(Hubs(degree_list)),
        hubs |-> Hubs(degree_list),
        degree_distribution |-> degree_list]

\* extract_graph_topology(Gx, threshold, top_k_nodes); node_order is the
\* order the nodes list is built in.
ExtractGraphTopology(Gx, threshold, top_k_nodes, node_order) ==
    LET N == Len(Gx)
        all_edges == ThresholdedEdges(Gx, N, threshold)
        E == GraphEdges(all_edges)
        degree_list == DegreeList(E, N)
        hubs == SeqRange(Hubs(degree_list))
        top_node_ids == TopNodeIds(Gx, N, threshold, top_k_nodes)
        edges == IF TopKApplies(N, top_k_nodes)
                 THEN SelectSeq(all_edges,
                          LAMBDA e : e.source \in top_node_ids /\ e.target \in top_node_ids)
                 ELSE all_edges
        nodes == [k \in 1..Len(node_order) |->
                     [id |-> node_order[k],
                      degree |-> degree_list[node_order[k] + 1],
                      in_degree |-> InDegree(E, node_order[k]),
                      out_degree |-> OutDegree(E, node_order[k]),
                      is_hub |-> node_order[k] \in hubs]]
    IN [nodes |-> nodes, edges |-> edges,
        metrics |-> TopologyMetricsOf(nodes, edges, E, degree_list, N)]

\* -------------------------------- StateExtractor.extract_activation_sparsity
\* An activation list is the tuple of its L layers, a layer the tuple of its
\* T rows (positions), a row the tuple of its N neuron values.
NonZeroCount(cells) == Cardinality({c \in cells : c[2] # 0})

\* The entries of stack[layer_idx], each with its place.
LayerEntries(stack, l) ==
    {<<<<l, t, i>>, stack[l][t][i]>> : t \in 1..Len(stack[l]), i \in 1..Len(stack[l][1])}

\* The entries of stack[:, token_idx, :].
TokenEntries(stack, t) ==
    {<<<<l, t, i>>, stack[l][t][i]>> : l \in 1..Len(stack), i \in 1..Len(stack[1][1])}

\* The entries of stack[:, :, n].
NeuronEntries(stack, i) ==
    {<<<<l, t, i>>, stack[l][t][i]>> : l \in 1..Len(stack), t \in 1..Len(stack[1])}

NonZeroFraction_ZeroShare(cells) ==
    Ratio(Cardinality(cells) - NonZeroCount(cells), Cardinality(cells))

\* (a != 0).mean() over a set of entries.
NonZeroFraction(cells) == Ratio(NonZeroCount(cells), Cardinality(cells))

\* The sparsity of each of the first L layers of stack.
SparsityPerLayer(stack, L) == [l \in 1..L |-> NonZeroFraction(LayerEntries(stack, l))]

\* np.mean of a list of fractions that share the denominator den.
MeanOfFractions(fs, den) == Ratio(SumSeq([k \in 1..Len(fs) |-> fs[k][1]]), den * Len(fs))

\* np.std of such a list, given by its square.
StdOfFractions(fs, den) ==
    LET total == SumSeq([k \in 1..Len(fs) |-> fs[k][1]])
        squares == SumSeq([k \in 1..Len(fs) |-> fs[k][1] * fs[k][1]])
    IN Ratio(Len(fs) * squares - total * total, Len(fs) * Len(fs) * den * den)

\* The x_* fields added when x_activations is given.
SecondaryFields(x_stack, L) ==
    LET per_layer == SparsityPerLayer(x_stack, L)
        den == Len(x_stack[1]) * Len(x_stack[1][1])
    IN [x_sparsity_per_layer |-> per_layer,
        x_avg_sparsity |-> MeanOfFractions(per_layer, den),
        x_std_sparsity |-> StdOfFractions(per_layer, den)]

\* The result dictionary before the optional x_* fields.
PrimaryFields(y_stack) ==
    LET L == Len(y_stack)
        T == Len(y_stack[1])
        N == Len(y_stack[1][1])
        per_layer == SparsityPerLayer(y_stack, L)
    IN [y_sparsity_per_layer |-> per_layer,
        y_sparsity_per_token |-> [t \in 1..T |-> NonZeroFraction(TokenEntries(y_stack, t))],
        y_avg_sparsity |-> MeanOfFractions(per_layer, T * N),
        y_std_sparsity |-> StdOfFractions(per_layer, T * N),
        y_heatmap |-> y_stack,
        y_neuron_metrics |->
            [avg_activation |->
                 [i \in 1..N |-> Ratio(SumSeq([k \in 1..(L * T) |->
                     y_stack[((k - 1) \div T) + 1][((k - 1) % T) + 1][i]]), L * T)],
             activation_frequency |->
                 [i \in 1..N |-> NonZeroFraction(NeuronEntries(y_stack, i))]]]

ExtractActivationSparsity_PooledMean(y_activations, x_activations) ==
    IF IsNone(x_activations)
    THEN PrimaryFields(y_activations)
    ELSE LET L == Len(y_activations)
             den == Len(y_activations[1]) * Len(y_activations[1][1])
             pooled == SparsityPerLayer(y_activations, L) \o SparsityPerLayer(x_activations, L)
         IN [PrimaryFields(y_activations) EXCEPT !.y_avg_sparsity = MeanOfFractions(pooled, den)]
                @@ SecondaryFields(x_activations, L)

\* extract_activation_sparsity(y_activations, x_activations)
ExtractActivationSparsity(y_activations, x_activations) ==
    IF IsNone(x_activations)
    THEN PrimaryFields(y_activations)
    ELSE PrimaryFields(y_activations)
             @@ SecondaryFields(x_activations, Len(y_activations))

\* ------------------------------------- StateExtractor.extract_attention_flow
\* attention_weights is the tuple of its L layers, a layer the tuple of its B
\* batch matrices, a matrix the tuple of its T rows of T weights.
RatioLeq(a, b) == a[1] * b[2] <= b[1] * a[2]

\* a.mean(axis=0): the T x T matrix of batch averages.
MeanOverBatch(a) ==
    LET B == Len(a)
        T == Len(a[1])
    IN [q \in 1..T |-> [k \in 1..T |->
           Ratio(SumSeq([b \in 1..B |-> a[b][q][k]]), B)]]

\* attn_matrix.flatten(): flat index f (from 0) holds row f // T, column f % T.
Flatten(m) ==
    LET T == Len(m) IN
    [f \in 1..(T * T) |-> m[((f - 1) \div T) + 1][((f - 1) % T) + 1]]

\* The values np.argsort(flat)[-top_k:] can take, top_k >= 0: the last top_k
\* flat indices of an ascending order of flat (all of them when top_k is 0 or
\* exceeds the length); equal weights come in any order.
ArgsortTails(flat, top_k) ==
    LET len == Len(flat)
        m == IF top_k = 0 \/ top_k > len THEN len ELSE top_k
    IN {q \in [1..m -> 0..(len - 1)] :
           /\ \A a, b \in 1..m : q[a] = q[b] => a = b
           /\ \A a \in 1..(m - 1) : RatioLeq(flat[q[a] + 1], flat[q[a + 1] + 1])
           /\ \A u \in 0..(len - 1) :
                  (\A a \in 1..m : q[a] # u) =>
                      \A a \in 1..m : RatioLeq(flat[u + 1], flat[q[a] + 1])}

\* The edge of one flat index.
EdgeOf_Transposed(attn_matrix, flat_idx) ==
    LET T == Len(attn_matrix)
        source == flat_idx % T
        target == flat_idx \div T
    IN [source |-> source, target |-> target,
        weight |-> attn_matrix[source + 1][target + 1]]

EdgeOf(attn_matrix, flat_idx) ==
    LET T == Len(attn_matrix)
        source == flat_idx \div T
        target == flat_idx % T
    IN [source |-> source, target |-> target,
        weight |-> attn_matrix[source + 1][target + 1]]

\* The per-layer argsort tails an extraction can see.
TailChoices(attention_weights, top_k) ==
    LET L == Len(attention_weights)
        tails(l) == ArgsortTails(Flatten(MeanOverBatch(attention_weights[l])), top_k)
    IN {ts \in [1..L -> UNION {tails(l) : l \in 1..L}] : \A l \in 1..L : ts[l] \in tails(l)}

\* extract_attention_flow(attention_weights, top_k); flat_indices[l] is the
\* argsort tail of layer l.
ExtractAttentionFlow(attention_weights, top_k, flat_indices) ==
    LET L == Len(attention_weights)
        attn_stack == [l \in 1..L |-> MeanOverBatch(attention_weights[l])]
        T == Len(attn_stack[1])
    IN [attention_per_layer |-> attn_stack,
        attention_edges_per_layer |->
            [l \in 1..L |-> [k \in 1..Len(flat_indices[l]) |->
                EdgeOf(attn_stack[l], flat_indices[l][k])]],
        avg_attention_per_layer |->
            [l \in 1..L |->
                Ratio(SumSeq([f \in 1..(T * T) |-> Flatten(attn_stack[l])[f][1]]),
                      Len(attention_weights[l]) * T * T)]]

\* ----------------------------------- StateExtractor.identify_concept_neurons
\* a > b for two fractions with positive denominators.
RatioGt(a, b) == a[1] * b[2] > b[1] * a[2]

\* np.where(input_tokens == token_id)[0], as a set of positions from 1.
TokenPositions(input_tokens, token_id) ==
    {t \in 1..Len(input_tokens) : input_tokens[t] = token_id}

\* The token ids that get a key: those of range(vocab_size) not skipped.
ConceptKeys_WholeVocabulary(input_tokens, vocab_size) == 0..(vocab_size - 1)

ConceptKeys(input_tokens, vocab_size) ==
    {token_id \in 0..(vocab_size - 1) : TokenPositions(input_tokens, token_id) # {}}

\* y_stack[:, token_positions, :].mean(axis=(0, 1))[neuron]
TokenActivation(y_stack, positions, i) ==
    LET L == Len(y_stack)
        T == Len(y_stack[1])
    IN Ratio(SumSeq([k \in 1..(L * T) |->
                 IF ((k - 1) % T) + 1 \in positions
                 THEN y_stack[((k - 1) \div T) + 1][((k - 1) % T) + 1][i]
                 ELSE 0]),
             L * Cardinality(positions))

\* identify_concept_neurons(y_activations, input_tokens, vocab_size,
\* threshold): the dictionary as a function on its keys.
IdentifyConceptNeurons(y_activations, input_tokens, vocab_size, threshold) ==
    LET N == Len(y_activations[1][1])
        neuron_ids == [k \in 1..N |-> k - 1]
    IN [token_id \in ConceptKeys(input_tokens, vocab_size) |->
           LET positions == TokenPositions(input_tokens, token_id)
               active_neurons ==
                   SelectSeq(neuron_ids, LAMBDA i :
                       RatioGt(TokenActivation(y_activations, positions, i + 1), threshold))
           IN [k \in 1..Len(active_neurons) |->
                  [neuron_id |-> active_neurons[k],
                   avg_activation |->
                       TokenActivation(y_activations, positions, active_neurons[k] + 1)]]]

\* ------------------------------------------------------ GET /api/topology
\* The fields of the TopologyMetrics response schema, all required.
TopologyMetricsFields ==
    {"num_neurons", "num_edges", "avg_degree", "max_degree", "min_degree",
     "std_degree", "hub_threshold", "num_hubs", "hub_indices"}

\* The keys of the metrics dictionary extract_graph_topology returns.
MetricsKeys == DOMAIN ExtractGraphTopology(<< >>, 0, << >>, << >>).metrics

\* GET /api/topology: load_model, extract_graph_topology, and
\* TopologyMetrics(**topology['metrics']); a missing required field is a
\* validation error, which the handler turns into HTTP 500.
TopologyRequest ==
    /\ nreq < MaxRequests
    /\ LoadModel
    /\ Served("topology",
              IF TopologyMetricsFields \subseteq MetricsKeys THEN "ok200" ELSE "error500",
              TheModel)
    /\ SolverIdle

NextApi ==
    \/ InferTracked
    \/ InferUntracked
    \/ SparsityRequest
    \/ PathfindRequest
    \/ PathfindModelRequest
    \/ ReadOnlyRequest
    \/ TopologyRequest

SpecApi == InitApi /\ [][NextApi]_vars

\* --------------------------------------------- calls of the StateExtractor
\* Node counts, non-zero weights and thresholds of the connectivity matrices.
NodeCounts == 0..3
Weights == {-2, 1}
Thresholds == {0, 1}
TopKNodes == {<< >>} \cup {<<k>> : k \in 0..3}

Matrices(N) ==
    {m \in [1..N -> [1..N -> {0} \cup Weights]] :
        LET zeros == Cardinality({p \in (1..N) \X (1..N) : m[p[1]][p[2]] = 0})
        IN \/ N * N - zeros <= MaxNonZero
           \/ zeros <= MaxZero}

\* Shapes <<L, T, N>> of the activation lists, and the lists of a shape.
Shapes == {sh \in (1..2) \X (1..2) \X (1..2) : sh[1] * sh[2] * sh[3] <= 4}
Activations(sh) == [1..sh[1] -> [1..sh[2] -> [1..sh[3] -> 0..MaxActivation]]]

\* Attention lists: one layer of one or two 2 x 2 batch matrices; two layers
\* of one 2 x 2 matrix with a single non-zero weight; and the 4 x 4 matrices
\* whose single largest weight is at (0, 3).
AttentionValues == {0, 1}
Square(T) == [1..T -> [1..T -> AttentionValues]]
OneHot(T) == {m \in Square(T) : SumSeq(Flatten(m)) = 1}
PeakAtZeroThree ==
    {[q \in 1..4 |-> [k \in 1..4 |->
         IF <<q, k>> = <<1, 4>> THEN 2 ELSE IF <<q, k>> = other THEN 1 ELSE 0]] :
     other \in (1..4) \X (1..4)}
AttentionLists ==
    {<<<<m>>>> : m \in Square(2)}
        \cup {<<<<m1, m2>>>> : m1 \in Square(2), m2 \in Square(2)}
        \cup {<<<<m1>>, <<m2>>>> : m1 \in OneHot(2), m2 \in OneHot(2)}
        \cup {<<<<m>>>> : m \in PeakAtZeroThree}
\* The 4 x 4 lists are extracted with top_k 1 or 2.
TopKsFor(attention_weights) ==
    IF Len(attention_weights[1][1]) = 4 THEN {1, 2} ELSE 0..MaxTopK

\* Token sequences, vocabulary sizes and thresholds of identify_concept_neurons.
TokenIds == 0..2
VocabSizes == {0, 2, 3}
ConceptThresholds == {Ratio(0, 1), Ratio(1, 2)}

OthersIdle == UNCHANGED <<boardVars, bfsVars, respVars, solveVars, apiVars, fn, args>>

\* The calls made: a function of the StateExtractor with its arguments.
TopologyCalls ==
    {[Gx |-> Gx, threshold |-> threshold, top_k_nodes |-> top_k_nodes] :
        Gx \in UNION {Matrices(N) : N \in NodeCounts},
        threshold \in Thresholds, top_k_nodes \in TopKNodes}

SparsityCalls ==
    UNION {{[y_activations |-> y, x_activations |-> x] :
               y \in Activations(sh), x \in {<< >>} \cup Activations(sh)} : sh \in Shapes}

AttentionCalls ==
    UNION {{[attention_weights |-> a, top_k |-> top_k] : top_k \in TopKsFor(a)} :
              a \in AttentionLists}

ConceptCalls ==
    UNION {{[y_activations |-> y, input_tokens |-> input_tokens,
             vocab_size |-> vocab_size, threshold |-> threshold] :
               y \in Activations(sh), input_tokens \in [1..sh[2] -> TokenIds],
               vocab_size \in VocabSizes, threshold \in ConceptThresholds} : sh \in Shapes}

ExtractGraphTopologyCall ==
    /\ fn = "extract_graph_topology" /\ pc = "call"
    /\ \E node_order \in NodeOrders(args.Gx, Len(args.Gx), args.threshold, args.top_k_nodes) :
          result' = ExtractGraphTopology(args.Gx, args.threshold, args.top_k_nodes, node_order)
    /\ pc' = "returned"
    /\ OthersIdle

ExtractActivationSparsityCall ==
    /\ fn = "extract_activation_sparsity" /\ pc = "call"
    /\ result' = ExtractActivationSparsity(args.y_activations, args.x_activations)
    /\ pc' = "returned"
    /\ OthersIdle

ExtractAttentionFlowCall ==
    /\ fn = "extract_attention_flow" /\ pc = "call"
    /\ \E flat_indices \in TailChoices(args.attention_weights, args.top_k) :
          result' = ExtractAttentionFlow(args.attention_weights, args.top_k, flat_indices)
    /\ pc' = "returned"
    /\ OthersIdle

IdentifyConceptNeuronsCall ==
    /\ fn = "identify_concept_neurons" /\ pc = "call"
    /\ result' = IdentifyConceptNeurons(args.y_activations, args.input_tokens,
                                        args.vocab_size, args.threshold)
    /\ pc' = "returned"
    /\ OthersIdle

InitExtract ==
    /\ caller = "extractor" /\ n = 0 /\ board = << >> /\ checkpoint_exists = FALSE
    /\ pc = "call"
    /\ start_pos = None /\ end_pos = None
    /\ queue = << >> /\ visited = {} /\ solution = << >>
    /\ bfs_iters = 0 /\ bfs_ran = FALSE
    /\ inference_ran = FALSE /\ status = 0 /\ model_error = None
    /\ model_available = FALSE /\ model_solution = None
    /\ policy = "none" /\ max_steps = 0 /\ step = 0
    /\ current = None /\ path = << >> /\ gvisited = {}
    /\ ret = "pending" /\ why = "none"
    /\ ApiIdle
    /\ result = << >>
    /\ \/ fn = "extract_graph_topology" /\ args \in TopologyCalls
       \/ fn = "extract_activation_sparsity" /\ args \in SparsityCalls
       \/ fn = "extract_attention_flow" /\ args \in AttentionCalls
       \/ fn = "identify_concept_neurons" /\ args \in ConceptCalls

NextExtract ==
    \/ ExtractGraphTopologyCall
    \/ ExtractActivationSparsityCall
    \/ ExtractAttentionFlowCall
    \/ IdentifyConceptNeuronsCall

SpecExtract == InitExtract /\ [][NextExtract]_vars

\* ------------------------------------------- one iteration of a greedy solve
\* The loop over adjacent_cells from index i on, valid_moves being the cells
\* appended so far and calls the model invocations made so far: the model is
\* invoked inside "if self._is_valid_move(...)", once per cell that passes.
\* logits[i] is last_logits[cell_idx] of the i-th adjacent cell.
RECURSIVE ScanAdjacent_ScoresEveryNeighbour(_, _, _, _, _, _, _, _, _)
ScanAdjacent_ScoresEveryNeighbour(b, nn, cur, vis, e, logits, i, valid_moves, calls) ==
    IF i > 4 THEN [raised |-> FALSE, valid_moves |-> valid_moves, calls |-> calls]
    ELSE LET next_pos == AdjacentCells(cur)[i] IN
         IF RaisesIndexError(nn, next_pos)
         THEN [raised |-> TRUE, valid_moves |-> valid_moves, calls |-> calls]
         ELSE IF IsValidMove(b, next_pos, vis, cur)
         THEN ScanAdjacent_ScoresEveryNeighbour(b, nn, cur, vis, e, logits, i + 1,
                  Append(valid_moves, <<next_pos, CombinedScore(next_pos, e, logits[i])>>),
                  calls + 1)
         ELSE ScanAdjacent_ScoresEveryNeighbour(b, nn, cur, vis, e, logits, i + 1,
                  valid_moves, calls + 1)

RECURSIVE ScanAdjacent(_, _, _, _, _, _, _, _, _)
ScanAdjacent(b, nn, cur, vis, e, logits, i, valid_moves, calls) ==
    IF i > 4 THEN [raised |-> FALSE, valid_moves |-> valid_moves, calls |-> calls]
    ELSE LET next_pos == AdjacentCells(cur)[i] IN
         IF RaisesIndexError(nn, next_pos)
         THEN [raised |-> TRUE, valid_moves |-> valid_moves, calls |-> calls]
         ELSE IF IsValidMove(b, next_pos, vis, cur)
         THEN ScanAdjacent(b, nn, cur, vis, e, logits, i + 1,
                  Append(valid_moves, <<next_pos, CombinedScore(next_pos, e, logits[i])>>),
                  calls + 1)
         ELSE ScanAdjacent(b, nn, cur, vis, e, logits, i + 1, valid_moves, calls)

\* One iteration of the loop of BDHPathfindingSolver.solve with the logits
\* the model returns: how it ends ("reached", "IndexError", "None", "move"),
\* the cell moved to, and the model invocations made.
CellIteration(b, nn, cur, vis, e, logits) ==
    IF cur = e THEN [kind |-> "reached", cell |-> None, calls |-> 0]
    ELSE LET scan == ScanAdjacent(b, nn, cur, vis, e, logits, 1, << >>, 0)
             cands == [k \in 1..Len(scan.valid_moves) |-> scan.valid_moves[k][1]]
             score == [k \in 1..Len(scan.valid_moves) |-> scan.valid_moves[k][2]]
         IN IF scan.raised THEN [kind |-> "IndexError", cell |-> None, calls |-> scan.calls]
            ELSE IF scan.valid_moves = << >>
            THEN [kind |-> "None", cell |-> None, calls |-> scan.calls]
            ELSE [kind |-> "move", cell |-> BestMove(cands, score), calls |-> scan.calls]

\* One iteration of the loop of BDHPathfindingSolverDirections.solve: the
\* model is invoked once, after the end test and before the directions are
\* tried.
DirectionIteration(b, nn, cur, vis, e, logits) ==
    IF cur = e THEN [kind |-> "reached", cell |-> None, calls |-> 0]
    ELSE LET t == TryDirections(b, nn, cur, vis, SortedDirections(logits), 1)
         IN [kind |-> t.kind, cell |-> t.cell, calls |-> 1]

\* The iterations run: the solver's current cell is a corner or the centre of
\* the window of a board of side 3 or board_size, each neighbour inside the
\* window is open, a wall or visited, and end is current or one of two cells.
IterationSides == {WindowSide, board_size}
CurrentCells == {<<0, 0>>, <<1, 1>>, <<2, 2>>}
EndCells(cur) == {cur, <<0, 2>>, <<2, 1>>}
WindowNeighbours(cur) == SeqRange(AdjacentCells(cur)) \cap Window

IterationStatesAt(nn, cur, e) ==
    {[board |-> MakeBoard(nn, 0, {c \in WindowNeighbours(cur) : cfg[c] = "wall"}, None, e),
      n |-> nn, current |-> cur, end |-> e,
      visited |-> {cur} \cup {c \in WindowNeighbours(cur) : cfg[c] = "visited"}] :
        cfg \in {f \in [WindowNeighbours(cur) -> {"open", "wall", "visited"}] :
                    e = cur \/ e \notin WindowNeighbours(cur) \/ f[e] = "open"}}

IterationStates ==
    UNION {UNION {IterationStatesAt(nn, cur, e) : e \in EndCells(cur)} :
              nn \in IterationSides, cur \in CurrentCells}

CellIterationCalls ==
    {st @@ [logits |-> l] : st \in IterationStates, l \in [1..4 -> Scores]}

DirectionIterationCalls ==
    {st @@ [logits |-> l] : st \in IterationStates, l \in [0..3 -> DirectionScores]}

CellIterationCall ==
    /\ fn = "cell_iteration" /\ pc = "call"
    /\ result' = CellIteration(args.board, args.n, args.current, args.visited,
                               args.end, args.logits)
    /\ pc' = "returned"
    /\ OthersIdle

DirectionIterationCall ==
    /\ fn = "direction_iteration" /\ pc = "call"
    /\ result' = DirectionIteration(args.board, args.n, args.current, args.visited,
                                    args.end, args.logits)
    /\ pc' = "returned"
    /\ OthersIdle

InitIteration ==
    /\ caller = "iteration" /\ n = 0 /\ board = << >> /\ checkpoint_exists = FALSE
    /\ pc = "call"
    /\ start_pos = None /\ end_pos = None
    /\ queue = << >> /\ visited = {} /\ solution = << >>
    /\ bfs_iters = 0 /\ bfs_ran = FALSE
    /\ inference_ran = FALSE /\ status = 0 /\ model_error = None
    /\ model_available = FALSE /\ model_solution = None
    /\ policy = "none" /\ max_steps = 0 /\ step = 0
    /\ current = None /\ path = << >> /\ gvisited = {}
    /\ ret = "pending" /\ why = "none"
    /\ ApiIdle
    /\ result = << >>
    /\ \/ fn = "cell_iteration" /\ args \in CellIterationCalls
       \/ fn = "direction_iteration" /\ args \in DirectionIterationCalls

NextIteration ==
    \/ CellIterationCall
    \/ DirectionIterationCall

SpecIteration == InitIteration /\ [][NextIteration]_vars

\* ================================================================== claims
\* Cells of the board that are no walls.
OpenCells(b, nn) == {cell \in Grid(nn) : At(b, cell) # 1}

FourNeighbours(cell) ==
    { <<cell[1] - 1, cell[2]>>, <<cell[1] + 1, cell[2]>>,
      <<cell[1], cell[2] - 1>>, <<cell[1], cell[2] + 1>> }

\* The cells some path of at most k edges leads to from the cells of seen,
\* moving in the four directions through open cells of the board.
RECURSIVE ReachWithin(_, _, _, _)
ReachWithin(b, nn, seen, k) ==
    IF k = 0 THEN seen
    ELSE LET more == seen \cup
                {c \in OpenCells(b, nn) : \E d \in seen : c \in FourNeighbours(d)}
         IN IF more = seen THEN seen ELSE ReachWithin(b, nn, more, k - 1)

Reachable(b, nn, s, e) == e \in ReachWithin(b, nn, {s}, nn * nn)

\* p is a path from s to e: consecutive cells are 4-neighbours, every cell is
\* an open cell of the board.
IsBoardPath(b, nn, p, s, e) ==
    /\ Len(p) >= 1 /\ p[1] = s /\ p[Len(p)] = e
    /\ \A i \in 1..Len(p) : p[i] \in OpenCells(b, nn)
    /\ \A i \in 1..(Len(p) - 1) : p[i + 1] \in FourNeighbours(p[i])

\* The search has just ended (its result is not changed afterwards).
BfsOver == bfs_ran /\ pc \in {"respond", "model_try", "solve_entry"}

SolveOver == caller = "solve" /\ pc = "done"

PathCells(p) == {p[i] : i \in 1..Len(p)}

\* C1: whenever breadth-first search returns a path, it is a path from start
\* to end through open cells and no path from start to end has fewer edges.
C1_BfsPathIsShortest ==
    (BfsOver /\ solution # << >>) =>
        /\ IsBoardPath(board, n, solution, start_pos, end_pos)
        /\ \A k \in 0..(Len(solution) - 2) :
              end_pos \notin ReachWithin(board, n, {start_pos}, k)

\* Breadth-first search returned a path that had to go around a wall.
C1_Witness ==
    /\ BfsOver /\ solution # << >>
    /\ Len(solution) - 1 > ManhattanDist(start_pos, end_pos)

\* C2: whenever a greedy solve returns a path, breadth-first search on the
\* same board returned a path too, of at most as many cells.
C2_BfsNotLongerThanGreedy ==
    (SolveOver /\ ret = "path") =>
        /\ solution # << >>
        /\ Len(solution) <= Len(path)

\* A greedy solve returned a path longer than the breadth-first one.
C2_Witness ==
    /\ SolveOver /\ ret = "path"
    /\ Len(path) > Len(solution)

\* C3 as stated: on the example board breadth-first search returns 6 cells.
C3_ExampleSixCells ==
    (board = ExampleBoard /\ BfsOver) => Len(solution) = 6

\* C3, amended: on the example board, start (1,0) and end (2,3),
\* breadth-first search returns a path of exactly 5 cells that avoids the
\* walls.
C3_ExampleFiveCells ==
    (board = ExampleBoard /\ BfsOver) =>
        /\ start_pos = <<1, 0>> /\ end_pos = <<2, 3>>
        /\ Len(solution) = 5
        /\ IsBoardPath(board, n, solution, start_pos, end_pos)

\* POST /api/pathfind answered the example board.
C3_Witness ==
    /\ board = ExampleBoard /\ caller = "pathfind"
    /\ pc = "done" /\ status = 200 /\ Len(solution) = 5

\* C4: breadth-first search runs at most one iteration per visited cell, and
\* when it is over it has no path exactly when the end is not reachable from
\* the start; otherwise its result is a path from start to end.
C4_BfsTerminatesAndDecides ==
    /\ bfs_iters <= Cardinality(visited)
    /\ visited \subseteq Grid(n)
    /\ BfsOver =>
        /\ (solution = << >>) <=> ~Reachable(board, n, start_pos, end_pos)
        /\ solution # << >> => IsBoardPath(board, n, solution, start_pos, end_pos)

\* Breadth-first search emptied its frontier without reaching the end.
C4_Witness ==
    /\ BfsOver /\ solution = << >>
    /\ bfs_iters >= 1
    /\ ~Reachable(board, n, start_pos, end_pos)

\* C5: an endpoint answers a board without start code or without end code
\* with an invalid-input error (400), no search and no inference run.
C5_InvalidBoardRejected ==
    (/\ caller \in {"pathfind", "pathfind-model"}
     /\ pc = "done"
     /\ (FindCode(board, n, 2) = None \/ FindCode(board, n, 3) = None)) =>
        /\ status = 400
        /\ ~bfs_ran
        /\ ~inference_ran

\* C6: on a board of the solvers' side, every cell a greedy solve appended to
\* its path is in the grid, no wall, a 4-neighbour of the cell before it and
\* not earlier in the path; the visited set is the set of path cells.
C6_GreedyMovesLegal ==
    (caller = "solve" /\ n = board_size /\ pc \in {"solve", "done"}) =>
        /\ gvisited = PathCells(path)
        /\ \A i \in 2..Len(path) :
              /\ path[i] \in Grid(n)
              /\ At(board, path[i]) # 1
              /\ path[i] \in FourNeighbours(path[i - 1])
              /\ \A j \in 1..(i - 1) : path[j] # path[i]

\* A direction-scored solve on a 10 x 10 board has made two moves.
C6_Witness ==
    /\ caller = "solve" /\ n = board_size /\ policy = "direction"
    /\ Len(path) >= 3

\* C7: a greedy solve ends within max_steps iterations, in one of three ways:
\* current equals end, no legal unvisited neighbour, or budget exhausted.
C7_ThreeOutcomes ==
    SolveOver =>
        /\ step <= max_steps
        /\ why \in {"reached", "stuck", "budget"}

\* C8: a greedy solve returns a path only if the path runs from start to end
\* in at most max_steps moves; a dead end and an exhausted budget short of
\* the end both return None.
C8_PathOnlyToEnd ==
    SolveOver =>
        /\ ret = "path" =>
              /\ path[1] = start_pos /\ Last(path) = end_pos
              /\ Len(path) <= max_steps + 1
        /\ why = "stuck" => ret = "None"
        /\ (why = "budget" /\ current # end_pos) => ret = "None"

\* The budget ran out after at least one move, short of the end.
C8_Witness ==
    /\ SolveOver /\ why = "budget" /\ ret = "None"
    /\ Len(path) >= 2 /\ current # end_pos

\* C9: the cell-scored solve, max_steps >= 1, from a start none of whose four
\* neighbours is an open cell of the board, returns None in its first
\* iteration, without a move and without raising.
C9_WalledStartReturnsNone ==
    (/\ SolveOver /\ policy = "cell" /\ max_steps >= 1
     /\ start_pos # end_pos
     /\ FourNeighbours(start_pos) \cap OpenCells(board, n) = {}) =>
        /\ ret = "None"
        /\ step = 1
        /\ path = <<start_pos>>

\* C10: POST /api/infer with track_states = false returns predictions,
\* whatever requests were served before it.
C10_UntrackedInferReturnsPredictions ==
    last_req = "infer-untracked" => last_out = "predictions"

\* C11: GET /api/topology with valid parameters answers 200 with nodes, edges
\* and metrics, the metrics record holding every field the response schema
\* requires.
C11_TopologyResponds200 ==
    last_req = "topology" =>
        /\ last_out = "ok200"
        /\ TopologyMetricsFields \subseteq MetricsKeys

\* C20: over any sequence of requests the model is built at most once: once
\* the cache is filled it stays filled and no later load_model builds again.
C20_ModelBuiltOnce ==
    [][/\ loads' <= 1
       /\ cache_loaded => (cache_loaded' /\ loads' = loads)]_vars

\* Two requests served, the second from the cache.
C20_Witness ==
    /\ nreq >= 2
    /\ cache_loaded
    /\ loads = 1

\* ---------------------------------------------- claims on the StateExtractor
TopologyCalled == fn = "extract_graph_topology" /\ pc = "returned"

\* The ordered pairs of the matrix whose weight exceeds the threshold in
\* absolute value, read off the matrix.
StrongPairs(Gx, threshold) ==
    {p \in (0..(Len(Gx) - 1)) \X (0..(Len(Gx) - 1)) :
        Entry(Gx, p[1], p[2]) > threshold \/ -Entry(Gx, p[1], p[2]) > threshold}

EdgePairs(edges) == {<<edges[k].source, edges[k].target>> : k \in 1..Len(edges)}

NoZeroEntry(Gx) ==
    \A p \in (0..(Len(Gx) - 1)) \X (0..(Len(Gx) - 1)) : Entry(Gx, p[1], p[2]) # 0

\* C12: with no top_k filter the edges are exactly the ordered pairs (i, j)
\* with |matrix[i][j]| > threshold, self-loops included, each pair once; with
\* threshold 0 and no zero entry they are all N*N ordered pairs.
C12_EdgesAreThresholdedPairs ==
    (TopologyCalled /\ ~TopKApplies(Len(args.Gx), args.top_k_nodes)) =>
        /\ EdgePairs(result.edges) = StrongPairs(args.Gx, args.threshold)
        /\ Len(result.edges) = Cardinality(EdgePairs(result.edges))
        /\ \A k \in 1..Len(result.edges) :
               result.edges[k].weight =
                   Entry(args.Gx, result.edges[k].source, result.edges[k].target)
        /\ (args.threshold = 0 /\ NoZeroEntry(args.Gx)) =>
               Len(result.edges) = Len(args.Gx) * Len(args.Gx)

\* A 3 x 3 matrix without a zero entry, threshold 0, no filter: 9 edges, the
\* three self-loops among them.
C12_Witness ==
    /\ TopologyCalled
    /\ IsNone(args.top_k_nodes)
    /\ Len(args.Gx) = 3
    /\ args.threshold = 0
    /\ NoZeroEntry(args.Gx)
    /\ Len(result.edges) = 9
    /\ \A i \in 0..2 : <<i, i>> \in EdgePairs(result.edges)

NodeIds(nodes) == {nodes[k].id : k \in 1..Len(nodes)}

\* C13: with top_k_nodes = k, 0 <= k < N, exactly k distinct nodes are
\* returned, and the returned edges are exactly the thresholded edges with
\* source and target both among them.
C13_TopKInducedSubgraph ==
    (TopologyCalled /\ TopKApplies(Len(args.Gx), args.top_k_nodes)) =>
        LET k == args.top_k_nodes[1]
            kept == NodeIds(result.nodes)
        IN /\ Len(result.nodes) = k
           /\ Cardinality(kept) = k
           /\ kept \subseteq 0..(Len(args.Gx) - 1)
           /\ EdgePairs(result.edges) =
                  {p \in StrongPairs(args.Gx, args.threshold) : p[1] \in kept /\ p[2] \in kept}
           /\ Len(result.edges) = Cardinality(EdgePairs(result.edges))

\* Two of three nodes kept, an edge between kept nodes returned and an edge
\* at the dropped node left out.
C13_Witness ==
    /\ TopologyCalled
    /\ Len(args.Gx) = 3
    /\ args.top_k_nodes = <<2>>
    /\ Len(result.nodes) = 2
    /\ Len(result.edges) >= 1
    /\ Len(result.edges) < Cardinality(StrongPairs(args.Gx, args.threshold))

\* C14: for a matrix with zero nodes, or with no entry above the threshold,
\* every numeric metric is zero: num_edges, avg/max/min/std degree,
\* hub_threshold, num_hubs, modularity and num_communities.
C14_DegenerateMetricsZero ==
    (TopologyCalled /\ StrongPairs(args.Gx, args.threshold) = {}) =>
        /\ result.metrics.num_edges = 0
        /\ result.metrics.avg_degree[1] = 0
        /\ result.metrics.max_degree = 0
        /\ result.metrics.min_degree = 0
        /\ result.metrics.std_degree[1] = 0
        /\ result.metrics.hub_threshold = 0
        /\ result.metrics.num_hubs = 0
        /\ ~result.metrics.modularity.detected
        /\ ~result.metrics.num_communities.detected

\* The total degree of node i, read off the matrix: the strong pairs leaving
\* i plus the strong pairs entering i.
MatrixDegree(Gx, threshold, i) ==
    Cardinality({p \in StrongPairs(Gx, threshold) : p[1] = i})
        + Cardinality({p \in StrongPairs(Gx, threshold) : p[2] = i})

\* Ten times the linearly interpolated 90th percentile of the degrees d (a
\* non-empty tuple): between the order statistics at the floor and the
\* ceiling of 0.9 * (len - 1).
InterpolatedP90(d) ==
    LET s == SortedAscending(d)
        floor == (9 * (Len(d) - 1)) \div 10
        ceiling == (9 * (Len(d) - 1) + 9) \div 10
        tenths == 9 * (Len(d) - 1) - 10 * floor
    IN (10 - tenths) * s[floor + 1] + tenths * s[ceiling + 1]

\* The nodes whose degree is at least the percentile.
NodesAtLeastP90(Gx, threshold) ==
    IF Len(Gx) = 0 THEN {}
    ELSE LET d == [k \in 1..Len(Gx) |-> MatrixDegree(Gx, threshold, k - 1)]
             p90 == InterpolatedP90(d)
         IN {i \in 0..(Len(Gx) - 1) : 10 * d[i + 1] >= p90}

\* C15: a node is flagged is_hub, and listed in metrics.hubs, exactly when its
\* total degree in the full thresholded graph is at least the interpolated
\* 90th percentile of all N total degrees; no hubs when N = 0.
C15_HubIffAtLeastP90 ==
    TopologyCalled =>
        LET expected == NodesAtLeastP90(args.Gx, args.threshold) IN
        /\ \A k \in 1..Len(result.nodes) :
               result.nodes[k].is_hub = (result.nodes[k].id \in expected)
        /\ SeqRange(result.metrics.hubs) = expected
        /\ Len(args.Gx) = 0 => result.metrics.hubs = << >>

\* Three nodes with an interpolated threshold that separates them: a hub and
\* a node that is none are both returned.
C15_Witness ==
    /\ TopologyCalled
    /\ Len(args.Gx) = 3
    /\ result.metrics.hub_threshold % 10 # 0
    /\ \E k \in 1..Len(result.nodes) : result.nodes[k].is_hub
    /\ \E k \in 1..Len(result.nodes) : ~result.nodes[k].is_hub

SparsityCalled == fn = "extract_activation_sparsity" /\ pc = "returned"

\* The places <<l, t, i>> of an activation list.
Places(y) == (1..Len(y)) \X (1..Len(y[1])) \X (1..Len(y[1][1]))

AllZero(y) == \A pl \in Places(y) : y[pl[1]][pl[2]][pl[3]] = 0
NoneZero(y) == \A pl \in Places(y) : y[pl[1]][pl[2]][pl[3]] # 0

\* The share num/den of the places in ps whose activation is not zero.
IsNonZeroShare(y, ps, frac) ==
    /\ frac[2] = Cardinality(ps)
    /\ frac[1] = Cardinality({pl \in ps : y[pl[1]][pl[2]][pl[3]] # 0})

\* C16: the per-layer and per-position values are the fraction of entries
\* that are not exactly zero; for an all-zero tensor every per-layer,
\* per-position and aggregate-mean value is exactly 0, for a tensor with no
\* zero entry exactly 1.
C16_SparsityIsNonZeroFraction ==
    SparsityCalled =>
        LET y == args.y_activations
            per_layer == result.y_sparsity_per_layer
            per_token == result.y_sparsity_per_token
            mean == result.y_avg_sparsity
        IN /\ Len(per_layer) = Len(y)
           /\ Len(per_token) = Len(y[1])
           /\ \A l \in 1..Len(y) :
                  IsNonZeroShare(y, {pl \in Places(y) : pl[1] = l}, per_layer[l])
           /\ \A t \in 1..Len(y[1]) :
                  IsNonZeroShare(y, {pl \in Places(y) : pl[2] = t}, per_token[t])
           /\ AllZero(y) =>
                  /\ \A l \in 1..Len(y) : per_layer[l][1] = 0
                  /\ \A t \in 1..Len(y[1]) : per_token[t][1] = 0
                  /\ mean[1] = 0
           /\ NoneZero(y) =>
                  /\ \A l \in 1..Len(y) : per_layer[l][1] = per_layer[l][2]
                  /\ \A t \in 1..Len(y[1]) : per_token[t][1] = per_token[t][2]
                  /\ mean[1] = mean[2]

\* Two layers of two positions without a zero: every value is 1.
C16_Witness ==
    /\ SparsityCalled
    /\ Len(args.y_activations) = 2
    /\ Len(args.y_activations[1]) = 2
    /\ NoneZero(args.y_activations)
    /\ result.y_avg_sparsity = Ratio(4, 4)
    /\ result.y_sparsity_per_layer = <<Ratio(2, 2), Ratio(2, 2)>>

PrimaryOutputs ==
    {"y_sparsity_per_layer", "y_sparsity_per_token", "y_avg_sparsity", "y_std_sparsity"}

SecondaryOutputs == {"x_sparsity_per_layer", "x_avg_sparsity", "x_std_sparsity"}

\* C17: the primary outputs are those of the call without the secondary
\* stream, whatever the secondary stream holds; the secondary stream only adds
\* its own x_* fields.
C17_SecondaryStreamDoesNotInterfere ==
    SparsityCalled =>
        LET alone == ExtractActivationSparsity(args.y_activations, << >>) IN
        /\ \A f \in DOMAIN alone : result[f] = alone[f]
        /\ PrimaryOutputs \subseteq DOMAIN alone
        /\ DOMAIN result =
               DOMAIN alone \cup (IF IsNone(args.x_activations) THEN {} ELSE SecondaryOutputs)

\* A secondary stream whose sparsity differs from the primary one.
C17_Witness ==
    /\ SparsityCalled
    /\ ~IsNone(args.x_activations)
    /\ Len(args.y_activations) = 2
    /\ result.x_sparsity_per_layer # result.y_sparsity_per_layer
    /\ result.x_avg_sparsity # result.y_avg_sparsity

AttentionCalled == fn = "extract_attention_flow" /\ pc = "returned"

\* The batch average of layer a at query row q, key column k (from 0).
BatchAverage(a, q, k) ==
    Ratio(SumSeq([b \in 1..Len(a) |-> a[b][q + 1][k + 1]]), Len(a))

\* C18: every returned edge carries the batch-averaged entry at (source =
\* query row, target = key column), which is at least every entry of the
\* layer that was not returned; a single maximal entry at (0, 3) of a 4 x 4
\* matrix with top_k = 1 gives exactly the edge 0 -> 3.
C18_TopAttentionEdges ==
    AttentionCalled =>
        \A l \in 1..Len(args.attention_weights) :
            LET a == args.attention_weights[l]
                T == Len(a[1])
                edges == result.attention_edges_per_layer[l]
                returned == EdgePairs(edges)
                peak == BatchAverage(a, 0, 3)
            IN /\ \A e \in 1..Len(edges) :
                      /\ edges[e].source \in 0..(T - 1)
                      /\ edges[e].target \in 0..(T - 1)
                      /\ edges[e].weight = BatchAverage(a, edges[e].source, edges[e].target)
                      /\ \A p \in ((0..(T - 1)) \X (0..(T - 1))) \ returned :
                             RatioLeq(BatchAverage(a, p[1], p[2]), edges[e].weight)
               /\ (/\ T = 4
                   /\ args.top_k = 1
                   /\ \A p \in ((0..3) \X (0..3)) \ {<<0, 3>>} :
                          ~RatioLeq(peak, BatchAverage(a, p[1], p[2]))) =>
                      edges = <<[source |-> 0, target |-> 3, weight |-> peak]>>

\* The 4 x 4 scenario: top_k = 1 returned the one edge 0 -> 3.
C18_Witness ==
    /\ AttentionCalled
    /\ Len(args.attention_weights[1][1]) = 4
    /\ args.top_k = 1
    /\ Len(result.attention_edges_per_layer[1]) = 1
    /\ result.attention_edges_per_layer[1][1].source = 0
    /\ result.attention_edges_per_layer[1][1].target = 3

ConceptCalled == fn = "identify_concept_neurons" /\ pc = "returned"

\* The activation of neuron i (from 0) summed over all layers and the
\* positions holding symbol s, and the number of terms of that sum.
SymbolTotal(y, tokens, s, i) ==
    SumSeq([l \in 1..Len(y) |->
        SumSeq([t \in 1..Len(tokens) |-> IF tokens[t] = s THEN y[l][t][i + 1] ELSE 0])])

SymbolTerms(y, tokens, s) ==
    Len(y) * Cardinality({t \in 1..Len(tokens) : tokens[t] = s})

\* C19: a symbol has a key exactly when it is below vocab_size and occurs in
\* the token sequence; its list holds exactly the neurons whose activation
\* averaged over all layers and occurrence positions is strictly above the
\* threshold, in ascending neuron id order.
C19_ConceptNeurons ==
    ConceptCalled =>
        LET y == args.y_activations
            tokens == args.input_tokens
            thr == args.threshold
        IN /\ DOMAIN result =
                  {sym \in 0..(args.vocab_size - 1) : \E t \in 1..Len(tokens) : tokens[t] = sym}
           /\ \A sym \in DOMAIN result :
                  LET found == result[sym] IN
                  /\ {found[k].neuron_id : k \in 1..Len(found)} =
                         {i \in 0..(Len(y[1][1]) - 1) :
                             SymbolTotal(y, tokens, sym, i) * thr[2]
                                 > thr[1] * SymbolTerms(y, tokens, sym)}
                  /\ \A k \in 1..(Len(found) - 1) :
                         found[k].neuron_id < found[k + 1].neuron_id
                  /\ \A k \in 1..Len(found) :
                         found[k].avg_activation =
                             Ratio(SymbolTotal(y, tokens, sym, found[k].neuron_id),
                                   SymbolTerms(y, tokens, sym))

\* A vocabulary of three symbols of which one never occurs and has no key,
\* while an occurring one has two neurons listed.
C19_Witness ==
    /\ ConceptCalled
    /\ args.vocab_size = 3
    /\ Cardinality(DOMAIN result) \in 1..2
    /\ \E sym \in DOMAIN result : Len(result[sym]) = 2

\* ------------------------------------------ claims on one greedy iteration
CellIterated == fn = "cell_iteration" /\ pc = "returned"
DirectionIterated == fn = "direction_iteration" /\ pc = "returned"

\* The valid candidates of an iteration, read off its arguments: the four
\* neighbours of current that lie on the board, are no wall and are unvisited.
LegalCells(a) ==
    {c \in FourNeighbours(a.current) \cap Grid(a.n) :
        At(a.board, c) # 1 /\ c \notin a.visited}

\* C21: the cell stepped to by the cell-scored policy has the minimum
\* Manhattan distance to the end among the valid candidates, for all model
\* scores; the model score only decides among candidates at equal distance.
C21_ManhattanDominates ==
    (CellIterated /\ result.kind = "move") =>
        /\ result.cell \in LegalCells(args)
        /\ \A c \in LegalCells(args) :
               ManhattanDist(result.cell, args.end) <= ManhattanDist(c, args.end)

LegalDirections(a) ==
    {d \in 0..3 :
        <<a.current[1] + DIRECTIONS[d][1], a.current[2] + DIRECTIONS[d][2]>> \in LegalCells(a)}

C28_SparsityMatchesLayers == sp_len = y_len

\* The degrees, in the full thresholded graph, of the nodes in kept, in node
\* order.
KeptDegrees(Gx, threshold, kept) ==
    LET ids == SelectSeq([k \in 1..Len(Gx) |-> k - 1], LAMBDA i : i \in kept)
    IN [k \in 1..Len(ids) |-> MatrixDegree(Gx, threshold, ids[k])]

\* C24: with top_k_nodes = k < N the degree statistics of metrics are those of
\* the full-graph degrees of the k retained nodes.
C24_DegreeStatsOfRetainedNodes ==
    (TopologyCalled /\ TopKApplies(Len(args.Gx), args.top_k_nodes)) =>
        LET d == KeptDegrees(args.Gx, args.threshold, NodeIds(result.nodes))
            sorted == SortedAscending(d)
            mt == result.metrics
        IN /\ SortedAscending(mt.degree_distribution) = sorted
           /\ mt.avg_degree[1] * Len(d) = SumSeq(d) * mt.avg_degree[2]
           /\ mt.max_degree = IF Len(d) > 0 THEN sorted[Len(d)] ELSE 0
           /\ mt.min_degree = IF Len(d) > 0 THEN sorted[1] ELSE 0

\* C25: with top_k_nodes = k < N community detection runs on the graph induced
\* by the k retained nodes: on the returned edges, and not at all when there
\* are none.
C25_CommunitiesOfFilteredGraph ==
    (TopologyCalled /\ TopKApplies(Len(args.Gx), args.top_k_nodes)) =>
        /\ result.metrics.modularity.detected = (result.edges # << >>)
        /\ result.metrics.modularity.on = EdgePairs(result.edges)
        /\ result.metrics.num_communities.detected = (result.edges # << >>)
        /\ result.metrics.num_communities.on = EdgePairs(result.edges)

\* C26: for every layer and every top_k >= 0 exactly min(top_k, T*T) edges are
\* returned, with distinct (source, target); top_k = 0 returns none.
C26_TopKEdgeCount ==
    AttentionCalled =>
        \A l \in 1..Len(args.attention_weights) :
            LET T == Len(args.attention_weights[l][1])
                edges == result.attention_edges_per_layer[l]
            IN /\ Len(edges) = IF args.top_k < T * T THEN args.top_k ELSE T * T
               /\ Cardinality(EdgePairs(edges)) = Len(edges)

\* C27: the hub summary agrees with the returned nodes: every id of
\* metrics.hubs is a returned node, and metrics.num_hubs counts the returned
\* nodes flagged is_hub.
C27_HubSummaryMatchesNodes ==
    TopologyCalled =>
        /\ SeqRange(result.metrics.hubs) \subseteq NodeIds(result.nodes)
        /\ result.metrics.num_hubs =
               Cardinality({k \in 1..Len(result.nodes) : result.nodes[k].is_hub})

\* C29: on a square board of any side n a greedy solve of either policy tests
\* candidates against the board's own dimensions: it never reads a cell
\* outside the n x n grid, so it never ends by raising IndexError.
C29_ReadsStayOnBoard ==
    caller = "solve" =>
        /\ ret # "IndexError"
        /\ why # "raised"

\* POST /api/pathfind-model has answered with its comparison of the solutions.
PathfindModelAnswered == caller = "pathfind-model" /\ pc = "done" /\ status = 200

\* C30: /api/pathfind-model answers with the outcome of the greedy solver when
\* the checkpoint exists: model_available with model_solution the solver's
\* path, or a model_error that reports the solver's failure, never a failure
\* of the endpoint to reach the solver. Without the checkpoint
\* model_available is false. Whenever model_available is false model_error is
\* set and there is no model_solution, and the breadth-first solution is
\* returned in every case.
C30_ModelOutcome ==
    PathfindModelAnswered =>
        /\ model_available =>
              (checkpoint_exists /\ model_solution # None /\ model_error = None)
        /\ ~model_available => (model_solution = None /\ model_error # None)
        /\ ~checkpoint_exists => ~model_available
        /\ checkpoint_exists =>
              (model_error = None \/ model_error[Len(model_error)] # PathNameError)
        /\ bfs_ran
        /\ solution # << >> => IsBoardPath(board, n, solution, start_pos, end_pos)

====
